---- MODULE Spec2Model ----
(***************************************************************************)
(* Model of utils/language_manager.py (class LanguageManager) and of the   *)
(* behave hooks of features/environment.py that drive it.                  *)
(*                                                                         *)
(* Python strings are sequences of one-character strings, so that          *)
(* str.lower() and str.strip() are computed character by character.        *)
(* A Python dict is the sequence of its <<key, value>> items in insertion  *)
(* order (keys pairwise distinct).                                         *)
(***************************************************************************)
EXTENDS Naturals, Sequences, FiniteSets, TLC

VARIABLES
    current_language,   \* self.current_language
    default_language,   \* self.default_language
    language_data,      \* self.language_data: dict code -> dict category -> dict key -> text
    sources,            \* the importable expectations.languages.* modules (environment)
    hash_order,         \* iteration order of set(LANGUAGE_MAPPINGS.values()) in this process
    scopes,             \* original_language of every active switch_language_temporarily frame
    entered,            \* history: current_language observed right before each active scope was entered
    call,               \* the last operation called, with its arguments
    exited,             \* history: right after a scope is left, <<current_language before it was
                        \* entered, current_language at the end of its block>>; <<>> otherwise
    result,             \* what the last operation returned
    run                 \* the behave run that drives the resolver (environment.py), or NoRun

vars == <<current_language, default_language, language_data, sources,
          hash_order, scopes, entered, exited, call, result, run>>

-----------------------------------------------------------------------------
(* Python str                                                              *)

\* Python's None, where a str is expected: no string has a two-letter character
None == <<"None">>

UpperLetters == <<"A","B","C","D","E","F","G","H","I","J","K","L","M",
                  "N","O","P","Q","R","S","T","U","V","W","X","Y","Z">>

LowerLetters == <<"a","b","c","d","e","f","g","h","i","j","k","l","m",
                  "n","o","p","q","r","s","t","u","v","w","x","y","z">>

Whitespace == {" ", "\t", "\n"}

LowerOf ==
    [c \in {UpperLetters[i] : i \in DOMAIN UpperLetters} |->
        LowerLetters[CHOOSE i \in DOMAIN UpperLetters : UpperLetters[i] = c]]

\* str.lower() on one character
LowerChar(c) == IF c \in DOMAIN LowerOf THEN LowerOf[c] ELSE c

\* str.lower()
Lower(s) == [i \in DOMAIN s |-> LowerChar(s[i])]

RECURSIVE LStrip(_)
LStrip(s) ==
    IF s # <<>> /\ Head(s) \in Whitespace THEN LStrip(Tail(s)) ELSE s

RECURSIVE RStrip(_)
RStrip(s) ==
    IF s # <<>> /\ s[Len(s)] \in Whitespace
    THEN RStrip(SubSeq(s, 1, Len(s) - 1))
    ELSE s

\* a strip() that is not there
Strip_Omitted(s) == s

\* str.strip()
Strip(s) == RStrip(LStrip(s))

-----------------------------------------------------------------------------
(* Python dict, as the sequence of its items                               *)

DictKeys(d) == [i \in DOMAIN d |-> d[i][1]]

DictHas(d, k) == \E i \in DOMAIN d : d[i][1] = k

\* d.get(k, dflt)
DictGet(d, k, dflt) ==
    IF DictHas(d, k) THEN d[CHOOSE i \in DOMAIN d : d[i][1] = k][2] ELSE dflt

\* d[k] = v
DictSet(d, k, v) ==
    IF DictHas(d, k)
    THEN [i \in DOMAIN d |-> IF d[i][1] = k THEN <<k, v>> ELSE d[i]]
    ELSE Append(d, <<k, v>>)

RECURSIVE DictValues(_)
DictValues(d) == IF d = <<>> THEN <<>> ELSE <<Head(d)[2]>> \o DictValues(Tail(d))

Range(s) == {s[i] : i \in DOMAIN s}

-----------------------------------------------------------------------------
(* String literals of the source                                           *)

s_en == <<"e","n">>
s_vi == <<"v","i">>
s_vn == <<"v","n">>
s_english == <<"e","n","g","l","i","s","h">>
s_vietnamese == <<"v","i","e","t","n","a","m","e","s","e">>
s_messages == <<"m","e","s","s","a","g","e","s">>
s_button_texts == <<"b","u","t","t","o","n","_","t","e","x","t","s">>
s_labels == <<"l","a","b","e","l","s">>
s_validation_messages ==
    <<"v","a","l","i","d","a","t","i","o","n","_","m","e","s","s","a","g","e","s">>

LANGUAGE_MAPPINGS ==
    << <<s_en, s_en>>, <<s_english, s_en>>, <<s_vi, s_vi>>,
       <<s_vietnamese, s_vi>>, <<s_vn, s_vi>> >>

FallbackCode_vi == s_vi

\* the fallback code of _normalize_language_code
FallbackCode == s_en

_normalize_language_code(language) ==
    IF language = None \/ language = <<>>
    THEN FallbackCode
    ELSE DictGet(LANGUAGE_MAPPINGS, Strip(Lower(language)), FallbackCode)

\* set(self.LANGUAGE_MAPPINGS.values())
SupportedSet == Range(DictValues(LANGUAGE_MAPPINGS))

\* the orders in which list(set(...)) can enumerate the supported codes
SetOrders(S) ==
    {o \in [1..Cardinality(S) -> S] : \A i, j \in DOMAIN o : i # j => o[i] # o[j]}

get_supported_languages(order) == order

-----------------------------------------------------------------------------
(* Language modules and the loader                                         *)

s_welcome == <<"w","e","l","c","o","m","e">>
s_save == <<"s","a","v","e">>

\* module_map of _load_language_data
module_map == << <<s_en, "english">>, <<s_vi, "vietnamese">> >>

ModuleNames == {"english", "vietnamese"}

\* the four categories of the entry stored after an ImportError
EmptyLanguageData ==
    << <<s_messages, <<>> >>, <<s_button_texts, <<>> >>,
       <<s_labels, <<>> >>, <<s_validation_messages, <<>> >> >>

\* the loop over dir(language_module): attrs is the module's attributes in
\* dir() order, each <<name, [isdict, value]>>
RECURSIVE ExtractLanguageData(_, _)
ExtractLanguageData(attrs, acc) ==
    IF attrs = <<>> THEN acc
    ELSE LET attr_name  == Head(attrs)[1]
             attr_value == Head(attrs)[2]
         IN  IF Head(attr_name) # "_" /\ attr_value.isdict
             THEN ExtractLanguageData(Tail(attrs),
                                      DictSet(acc, Lower(attr_name), attr_value.value))
             ELSE ExtractLanguageData(Tail(attrs), acc)

\* what _load_language_data stores for language_code, given the outcome of
\* importlib.import_module
LoadedEntry(src) ==
    CASE src.kind = "module"      -> ExtractLanguageData(src.attrs, <<>>)
      [] src.kind = "ImportError" -> EmptyLanguageData
      [] src.kind = "Exception"   -> <<>>

_load_language_data(data, language_code, srcs) ==
    DictSet(data, language_code,
            LoadedEntry(srcs[DictGet(module_map, language_code, "english")]))

\* _load_all_languages: one pass over LANGUAGE_MAPPINGS.values()
RECURSIVE LoadEach(_, _, _)
LoadEach(codes, data, srcs) ==
    IF codes = <<>> THEN data
    ELSE LoadEach(Tail(codes),
                  IF DictHas(data, Head(codes)) THEN data
                  ELSE _load_language_data(data, Head(codes), srcs),
                  srcs)

\* a constructor that loads the English module only
_load_all_languages_EnglishOnly(data, srcs) == _load_language_data(data, s_en, srcs)

_load_all_languages(data, srcs) == LoadEach(DictValues(LANGUAGE_MAPPINGS), data, srcs)

-----------------------------------------------------------------------------
(* The importable language modules: the inputs of a run                    *)

Dict(d) == [isdict |-> TRUE, value |-> d]
NotADict == [isdict |-> FALSE, value |-> <<>>]

Module(attrs) == [kind |-> "module", attrs |-> attrs]
ImportError == [kind |-> "ImportError", attrs |-> <<>>]
OtherException == [kind |-> "Exception", attrs |-> <<>>]

t_Welcome == <<"W","e","l","c","o","m","e">>
t_Save == <<"S","a","v","e">>
t_Chao == <<"C","h","a","o">>
t_Luu == <<"L","u","u">>

Keys == {s_welcome, s_save}

\* the text a module of language lang gives to key
Translation(lang, key) ==
    CASE lang = s_en /\ key = s_welcome -> t_Welcome
      [] lang = s_en /\ key = s_save    -> t_Save
      [] lang = s_vi /\ key = s_welcome -> t_Chao
      [] lang = s_vi /\ key = s_save    -> t_Luu

A_BUTTON_TEXTS == <<"B","U","T","T","O","N","_","T","E","X","T","S">>
A_LABELS == <<"L","A","B","E","L","S">>
A_MESSAGES == <<"M","E","S","S","A","G","E","S">>
A_VALIDATION_MESSAGES ==
    <<"V","A","L","I","D","A","T","I","O","N","_","M","E","S","S","A","G","E","S">>
A_VERSION == <<"V","E","R","S","I","O","N">>
a_cache == <<"_","c","a","c","h","e">>

\* a complete English module and a Vietnamese one that lacks "welcome" in
\* its messages; both carry a non-dict attribute and a private dict
SampleEnglish ==
    Module(<< <<A_BUTTON_TEXTS, Dict(<< <<s_save, t_Save>> >>)>>,
              <<A_MESSAGES, Dict(<< <<s_welcome, t_Welcome>>, <<s_save, t_Save>> >>)>>,
              <<A_VERSION, NotADict>>,
              <<a_cache, Dict(<< <<s_save, t_Save>> >>)>>,
              <<s_labels, Dict(<< <<s_welcome, t_Welcome>> >>)>> >>)

SampleVietnamese ==
    Module(<< <<A_BUTTON_TEXTS, Dict(<< <<s_save, t_Luu>> >>)>>,
              <<A_MESSAGES, Dict(<< <<s_save, t_Luu>> >>)>>,
              <<A_VERSION, NotADict>>,
              <<a_cache, Dict(<< <<s_welcome, t_Chao>> >>)>>,
              <<s_labels, Dict(<< <<s_welcome, t_Chao>> >>)>> >>)

SampleSources ==
    [english : {SampleEnglish, ImportError, OtherException},
     vietnamese : {SampleVietnamese, ImportError, OtherException}]

\* Generated modules: the attributes are the four default categories, in
\* dir() order; a slot is a <<attribute, key>> pair some module fills.
MaxSlots == 2

AttrNames == <<A_BUTTON_TEXTS, A_LABELS, A_MESSAGES, A_VALIDATION_MESSAGES>>

Slots == Range(AttrNames) \X Keys

SlotSets == {S \in SUBSET Slots : Cardinality(S) <= MaxSlots}

\* the dicts over a subset of the keys K, in every insertion order
OrderedDicts(lang, K) ==
    {[i \in DOMAIN o |-> <<o[i], Translation(lang, o[i])>>] :
        o \in UNION {SetOrders(J) : J \in SUBSET K}}

ModulesWithin(lang, S) ==
    {Module([i \in DOMAIN AttrNames |-> <<AttrNames[i], Dict(g[i])>>]) :
        g \in {f \in [DOMAIN AttrNames -> OrderedDicts(lang, Keys)] :
                  \A i \in DOMAIN AttrNames :
                      \A k \in Range(DictKeys(f[i])) : <<AttrNames[i], k>> \in S}}

\* the two modules together fill at most MaxSlots slots; either import may fail
GeneratedSources ==
    UNION {[english : ModulesWithin(s_en, S) \cup {ImportError, OtherException},
            vietnamese : ModulesWithin(s_vi, S) \cup {ImportError, OtherException}] :
              S \in SlotSets}

\* language arguments callers pass: None, the empty string, aliases in
\* several spellings, and strings no alias matches
RawLanguages ==
    { None,
      <<>>,
      s_en,
      <<" ","E","N","\t">>,
      <<"E","n","g","l","i","s","h">>,
      s_vi,
      <<"V","N">>,
      <<"\n","V","i","e","t","n","a","m","e","s","e"," "," ">>,
      s_vietnamese,
      <<"b","o","g","u","s">>,
      <<" ">>,
      <<"v"," ","i">>,
      <<"v","i","e","t">> }

\* reference arguments of a validation: one of each kind of RawLanguages
ReferenceArgs ==
    { None, <<>>, s_en, s_vi, <<"V","N">>, <<"b","o","g","u","s">> }

-----------------------------------------------------------------------------
(* LanguageManager.__init__                                                *)

Called(op, args) == [op |-> op, args |-> args]

\* a constructor that keeps its argument as the default language
InitWith_RawDefault(srcs, defaults) ==
    /\ sources \in srcs
    /\ hash_order \in SetOrders(SupportedSet)
    /\ \E default \in defaults :
          /\ current_language = _normalize_language_code(default)
          /\ default_language = default
          /\ call = Called("__init__", <<default>>)
    /\ language_data = _load_all_languages(<<>>, sources)
    /\ scopes = <<>>
    /\ entered = <<>>
    /\ exited = <<>>
    /\ result = None

InitWith(srcs, defaults) ==
    /\ sources \in srcs
    /\ hash_order \in SetOrders(SupportedSet)
    /\ \E default \in defaults :
          /\ current_language = _normalize_language_code(default)
          /\ default_language = _normalize_language_code(default)
          /\ call = Called("__init__", <<default>>)
    /\ language_data = _load_all_languages(<<>>, sources)
    /\ scopes = <<>>
    /\ entered = <<>>
    /\ exited = <<>>
    /\ result = None

\* a resolver used on its own, outside a behave run
NoRun == [phase |-> "none"]

Init == InitWith(SampleSources, RawLanguages) /\ run = NoRun

InitCatalog == InitWith(GeneratedSources, {s_en, s_vi}) /\ run = NoRun

-----------------------------------------------------------------------------
(* Language state                                                          *)

MaxDepth == 2

\* a set_language that stores its argument as given
set_language_Raw(data, language, srcs) == <<data, language>>

\* the body of set_language: <<language_data, current_language>> afterwards
set_language(data, language, srcs) ==
    LET normalized_lang == _normalize_language_code(language)
    IN  << IF DictHas(data, normalized_lang) THEN data
           ELSE _load_language_data(data, normalized_lang, srcs),
           normalized_lang >>

SetLanguage(language) ==
    /\ language_data' = set_language(language_data, language, sources)[1]
    /\ current_language' = set_language(language_data, language, sources)[2]
    /\ call' = Called("set_language", <<language>>)
    /\ result' = None
    /\ exited' = <<>>
    /\ UNCHANGED <<default_language, sources, hash_order, scopes, entered, run>>

GetCurrentLanguage ==
    /\ call' = Called("get_current_language", <<>>)
    /\ result' = current_language
    /\ exited' = <<>>
    /\ UNCHANGED <<current_language, default_language, language_data, sources,
                   hash_order, scopes, entered, run>>

\* switch_language_temporarily up to its yield
ScopeEnter(language) ==
    /\ Len(scopes) < MaxDepth
    /\ scopes' = Append(scopes, current_language)
    /\ entered' = Append(entered, current_language)
    /\ language_data' = set_language(language_data, language, sources)[1]
    /\ current_language' = set_language(language_data, language, sources)[2]
    /\ call' = Called("scope_enter", <<language>>)
    /\ result' = None
    /\ exited' = <<>>
    /\ UNCHANGED <<default_language, sources, hash_order, run>>

\* a switch_language_temporarily without try/finally
LanguageAfterScope_NoFinally(how, original_language, current) ==
    IF how = "raise" THEN current ELSE original_language

\* current_language once the innermost with-block is left; how is "return"
\* when the block completes and "raise" when it fails
LanguageAfterScope(how, original_language, current) == original_language

\* the finally clause of switch_language_temporarily
ScopeExit(how) ==
    /\ scopes # <<>>
    /\ current_language' =
          LanguageAfterScope(how, scopes[Len(scopes)], current_language)
    /\ scopes' = SubSeq(scopes, 1, Len(scopes) - 1)
    /\ entered' = SubSeq(entered, 1, Len(entered) - 1)
    /\ exited' = <<entered[Len(entered)], current_language>>
    /\ call' = Called("scope_exit", <<how>>)
    /\ result' = None
    /\ UNCHANGED <<default_language, language_data, sources, hash_order, run>>

-----------------------------------------------------------------------------
(* Text lookup                                                             *)

\* f"[Missing: {key}]"
MissingText(key) == <<"[","M","i","s","s","i","n","g",":"," ">> \o key \o <<"]">>

\* a fallback loop whose test of lang_code is inverted
OtherLanguages_Inverted(order, current) ==
    SelectSeq(order, LAMBDA lang_code : lang_code = current)

\* the languages the fallback loop of get_text_by_category looks into, in
\* the order it visits them
OtherLanguages(order, current) ==
    SelectSeq(get_supported_languages(order), LAMBDA lang_code : lang_code # current)

RECURSIVE FallbackScan(_, _, _, _)
FallbackScan(data, langs, category, key) ==
    IF langs = <<>> THEN MissingText(key)
    ELSE LET lang_data     == DictGet(data, Head(langs), <<>>)
             category_data == DictGet(lang_data, Lower(category), <<>>)
         IN  IF DictHas(category_data, key)
             THEN DictGet(category_data, key, None)
             ELSE FallbackScan(data, Tail(langs), category, key)

\* a lookup that falls back whatever the flag says
get_text_by_category_AlwaysFallback(data, current, order, category, key, fallback) ==
    LET current_data  == DictGet(data, current, <<>>)
        category_data == DictGet(current_data, Lower(category), <<>>)
    IN  IF DictHas(category_data, key) THEN DictGet(category_data, key, None)
        ELSE FallbackScan(data, OtherLanguages(order, current), category, key)

\* a lookup that takes the first supported language that has the key
get_text_by_category_AnyLanguage(data, current, order, category, key, fallback) ==
    FallbackScan(data, get_supported_languages(order), category, key)

get_text_by_category(data, current, order, category, key, fallback) ==
    LET current_data  == DictGet(data, current, <<>>)
        category_data == DictGet(current_data, Lower(category), <<>>)
    IN  IF DictHas(category_data, key) THEN DictGet(category_data, key, None)
        ELSE IF ~fallback THEN MissingText(key)
        ELSE FallbackScan(data, OtherLanguages(order, current), category, key)

get_message(data, current, order, key, fallback) ==
    get_text_by_category(data, current, order, s_messages, key, fallback)

get_button_text(data, current, order, key, fallback) ==
    get_text_by_category(data, current, order, s_button_texts, key, fallback)

get_label_text(data, current, order, key, fallback) ==
    get_text_by_category(data, current, order, s_labels, key, fallback)

\* an accessor bound to the wrong category
get_validation_message_Messages(data, current, order, key, fallback) ==
    get_text_by_category(data, current, order, s_messages, key, fallback)

get_validation_message(data, current, order, key, fallback) ==
    get_text_by_category(data, current, order, s_validation_messages, key, fallback)

\* category arguments callers pass: the four defaults, one of them
\* capitalised, and a category no module has
CategoryArgs ==
    { s_messages, s_button_texts, s_labels, s_validation_messages,
      <<"M","e","s","s","a","g","e","s">>,
      <<"t","o","o","l","t","i","p","s">> }

Reads(op, args, value) ==
    /\ call' = Called(op, args)
    /\ result' = value
    /\ exited' = <<>>
    /\ UNCHANGED <<current_language, default_language, language_data, sources,
                   hash_order, scopes, entered, run>>

GetTextByCategory(category, key, fallback) ==
    Reads("get_text_by_category", <<category, key, fallback>>,
          get_text_by_category(language_data, current_language, hash_order,
                               category, key, fallback))

GetMessage(key, fallback) ==
    Reads("get_message", <<key, fallback>>,
          get_message(language_data, current_language, hash_order, key, fallback))

GetButtonText(key, fallback) ==
    Reads("get_button_text", <<key, fallback>>,
          get_button_text(language_data, current_language, hash_order, key, fallback))

GetLabelText(key, fallback) ==
    Reads("get_label_text", <<key, fallback>>,
          get_label_text(language_data, current_language, hash_order, key, fallback))

GetValidationMessage(key, fallback) ==
    Reads("get_validation_message", <<key, fallback>>,
          get_validation_message(language_data, current_language, hash_order,
                                 key, fallback))

-----------------------------------------------------------------------------
(* Completeness validation and export                                      *)

\* a validation that reports the keys in no particular order
MissingKeys_Reversed(ref_texts, lang_texts) ==
    LET missing == SelectSeq(DictKeys(ref_texts), LAMBDA key : ~DictHas(lang_texts, key))
    IN  [i \in DOMAIN missing |-> missing[Len(missing) + 1 - i]]

\* [key for key in ref_texts.keys() if key not in lang_texts]
MissingKeys(ref_texts, lang_texts) ==
    SelectSeq(DictKeys(ref_texts), LAMBDA key : ~DictHas(lang_texts, key))

\* the loop over reference_data.items() for one language
RECURSIVE MissingByCategory(_, _, _)
MissingByCategory(reference_items, lang_data, missing_keys) ==
    IF reference_items = <<>> THEN missing_keys
    ELSE LET category == Head(reference_items)[1]
             missing  == MissingKeys(Head(reference_items)[2],
                                     DictGet(lang_data, category, <<>>))
         IN  MissingByCategory(Tail(reference_items), lang_data,
                               IF missing # <<>>
                               THEN DictSet(missing_keys, category, missing)
                               ELSE missing_keys)

\* a validation that leaves out the languages that lack nothing
RecordLanguage_OnlyGaps(validation_result, lang_code, missing_keys) ==
    IF missing_keys = <<>> THEN validation_result
    ELSE DictSet(validation_result, lang_code, missing_keys)

\* validation_result[lang_code] = missing_keys
RecordLanguage(validation_result, lang_code, missing_keys) ==
    DictSet(validation_result, lang_code, missing_keys)

RECURSIVE ValidateEach(_, _, _, _)
ValidateEach(langs, reference_lang, data, validation_result) ==
    IF langs = <<>> THEN validation_result
    ELSE ValidateEach(Tail(langs), reference_lang, data,
            IF Head(langs) = reference_lang THEN validation_result
            ELSE RecordLanguage(validation_result, Head(langs),
                    MissingByCategory(DictGet(data, reference_lang, <<>>),
                                      DictGet(data, Head(langs), <<>>), <<>>)))

validate_language_completeness(data, order, reference_language) ==
    ValidateEach(get_supported_languages(order),
                 _normalize_language_code(reference_language), data, <<>>)

\* a validation that switches to the reference language
ValidateLanguageCompleteness_Switching(reference_language) ==
    /\ current_language' = _normalize_language_code(reference_language)
    /\ call' = Called("validate_language_completeness", <<reference_language>>)
    /\ result' = validate_language_completeness(language_data, hash_order,
                                                 reference_language)
    /\ exited' = <<>>
    /\ UNCHANGED <<default_language, language_data, sources, hash_order, scopes,
                   entered, run>>

ValidateLanguageCompleteness(reference_language) ==
    Reads("validate_language_completeness", <<reference_language>>,
          validate_language_completeness(language_data, hash_order,
                                         reference_language))

export_language_data(data, current, order, language) ==
    IF language # None /\ language # <<>>
    THEN [language |-> _normalize_language_code(language),
          data |-> DictGet(data, _normalize_language_code(language), <<>>)]
    ELSE [current_language |-> current,
          supported_languages |-> get_supported_languages(order),
          all_data |-> data]

ExportLanguageData(language) ==
    Reads("export_language_data", <<language>>,
          export_language_data(language_data, current_language, hash_order, language))

-----------------------------------------------------------------------------
(* Specifications                                                          *)

\* the language state of one resolver, on the sample modules
Next ==
    \/ \E language \in RawLanguages : SetLanguage(language)
    \/ GetCurrentLanguage
    \/ \E language \in RawLanguages : ScopeEnter(language)
    \/ \E how \in {"return", "raise"} : ScopeExit(how)
    \/ \E language \in RawLanguages : ExportLanguageData(language)
    \/ \E reference_language \in ReferenceArgs :
          ValidateLanguageCompleteness(reference_language)
    \/ \E key \in Keys, fallback \in BOOLEAN : GetMessage(key, fallback)

Spec == Init /\ [][Next]_vars

\* one lookup or validation on a freshly constructed resolver, on every
\* generated catalog
NextCatalog ==
    /\ call.op = "__init__"
    /\ \/ \E category \in CategoryArgs, key \in Keys, fallback \in BOOLEAN :
             GetTextByCategory(category, key, fallback)
       \/ \E key \in Keys, fallback \in BOOLEAN : GetMessage(key, fallback)
       \/ \E key \in Keys, fallback \in BOOLEAN : GetButtonText(key, fallback)
       \/ \E key \in Keys, fallback \in BOOLEAN : GetLabelText(key, fallback)
       \/ \E key \in Keys, fallback \in BOOLEAN : GetValidationMessage(key, fallback)
       \/ \E reference_language \in ReferenceArgs :
             ValidateLanguageCompleteness(reference_language)

SpecCatalog == InitCatalog /\ [][NextCatalog]_vars

-----------------------------------------------------------------------------
(* LanguageManager.bulk_get_texts                                          *)

\* a batch that stops at the first key it cannot resolve
RECURSIVE BulkUntilMiss(_, _, _, _, _, _)
BulkUntilMiss(keys, acc, data, current, order, category) ==
    IF keys = <<>> THEN acc
    ELSE LET text == get_text_by_category(data, current, order, category,
                                          Head(keys), TRUE)
         IN  IF text = MissingText(Head(keys)) THEN acc
             ELSE BulkUntilMiss(Tail(keys), DictSet(acc, Head(keys), text),
                                data, current, order, category)

bulk_get_texts_StopAtMiss(data, current, order, keys, category) ==
    BulkUntilMiss(keys, <<>>, data, current, order, category)

\* the loop "for key in keys: result[key] = ..."
RECURSIVE BulkEach(_, _, _, _, _, _)
BulkEach(keys, acc, data, current, order, category) ==
    IF keys = <<>> THEN acc
    ELSE BulkEach(Tail(keys),
                  DictSet(acc, Head(keys),
                          get_text_by_category(data, current, order, category,
                                               Head(keys), TRUE)),
                  data, current, order, category)

bulk_get_texts(data, current, order, keys, category) ==
    BulkEach(keys, <<>>, data, current, order, category)

\* the longest list of keys of a batch
MaxBulk == 2

\* lists of keys, repeated keys included
KeyLists == UNION {[1..n -> Keys] : n \in 0..MaxBulk}

\* the default category, and one named in another case
BulkCategories == {s_messages, <<"L","a","b","e","l","s">>}

BulkGetTexts(keys, category) ==
    Reads("bulk_get_texts", <<keys, category>>,
          bulk_get_texts(language_data, current_language, hash_order, keys,
                         category))

\* one batch on a freshly constructed resolver, on every generated catalog
NextBulk ==
    /\ call.op = "__init__"
    /\ \E keys \in KeyLists, category \in BulkCategories :
          BulkGetTexts(keys, category)

SpecBulk == InitCatalog /\ [][NextBulk]_vars

-----------------------------------------------------------------------------
(* LanguageManager.find_key_by_text                                        *)

\* a comparison that minds the letter case
TextMatches_CaseSensitive(value, text) == value = text

\* value.lower() == text.lower()
TextMatches(value, text) == Lower(value) = Lower(text)

\* the loop over category_data.items(): the first matching key, if any, as a
\* sequence of at most one key
RECURSIVE FindInItems(_, _)
FindInItems(category_data, text) ==
    IF category_data = <<>> THEN <<>>
    ELSE IF TextMatches(Head(category_data)[2], text)
    THEN <<Head(category_data)[1]>>
    ELSE FindInItems(Tail(category_data), text)

\* the loop over categories_to_search
RECURSIVE FindInCategories(_, _, _)
FindInCategories(categories_to_search, current_data, text) ==
    IF categories_to_search = <<>> THEN None
    ELSE LET category_data == DictGet(current_data, Head(categories_to_search), <<>>)
             found         == FindInItems(category_data, text)
         IN  IF found # <<>> THEN found[1]
             ELSE FindInCategories(Tail(categories_to_search), current_data, text)

find_key_by_text(data, current, text, category) ==
    LET current_data == DictGet(data, current, <<>>)
        categories_to_search ==
            IF category = None \/ category = <<>>
            THEN DictKeys(current_data)
            ELSE <<category>>
    IN  FindInCategories(categories_to_search, current_data, text)

t_SAVE == <<"S","A","V","E">>

\* texts of the modules searched backwards: two that differ in case only
ReverseTexts == {t_Save, t_SAVE, t_Luu}

\* the most items the two modules hold together
MaxItems == 2

\* the dicts of n items, keys distinct, in every insertion order
ItemDicts(n) ==
    {d \in [1..n -> Keys \X ReverseTexts] :
        \A i, j \in 1..n : d[i][1] = d[j][1] => i = j}

\* modules with a labels items and b messages items, in dir() order
ReverseModules(a, b) ==
    {Module(<< <<A_LABELS, Dict(l)>>, <<A_MESSAGES, Dict(m)>> >>) :
        l \in ItemDicts(a), m \in ItemDicts(b)}

ItemCounts ==
    {q \in [1..4 -> 0..Cardinality(Keys)] : q[1] + q[2] + q[3] + q[4] <= MaxItems}

\* both modules import, or one fails either way
ReverseSources ==
    UNION {[english : ReverseModules(q[1], q[2]) \cup
                        (IF q[1] + q[2] = 0 THEN {ImportError, OtherException} ELSE {}),
            vietnamese : ReverseModules(q[3], q[4]) \cup
                        (IF q[3] + q[4] = 0 THEN {ImportError, OtherException} ELSE {})] :
              q \in ItemCounts}

InitReverse == InitWith(ReverseSources, {s_en, s_vi}) /\ run = NoRun

\* text arguments: stored texts, one in a case no module stores, one no
\* module has
TextArgs == ReverseTexts \cup {<<"s","a","v","e">>, t_Welcome}

\* category arguments: omitted, empty, exact names, another case
ReverseCategories ==
    {None, <<>>, s_messages, s_labels, <<"M","e","s","s","a","g","e","s">>}

FindKeyByText(text, category) ==
    Reads("find_key_by_text", <<text, category>>,
          find_key_by_text(language_data, current_language, text, category))

\* one reverse lookup on a freshly constructed resolver
NextReverse ==
    /\ call.op = "__init__"
    /\ \E text \in TextArgs, category \in ReverseCategories :
          FindKeyByText(text, category)

SpecReverse == InitReverse /\ [][NextReverse]_vars

-----------------------------------------------------------------------------
(* The behave hooks of features/environment.py                             *)

\* tag.startswith(prefix)
StartsWith(tag, prefix) ==
    Len(tag) >= Len(prefix) /\ SubSeq(tag, 1, Len(prefix)) = prefix

\* tag.replace(old, ''): every occurrence of old, left to right
RECURSIVE Remove(_, _)
Remove(tag, old) ==
    IF Len(tag) < Len(old) THEN tag
    ELSE IF SubSeq(tag, 1, Len(old)) = old
    THEN Remove(SubSeq(tag, Len(old) + 1, Len(tag)), old)
    ELSE <<Head(tag)>> \o Remove(Tail(tag), old)

s_language_dot == <<"l","a","n","g","u","a","g","e",".">>
s_multilang == <<"m","u","l","t","i","l","a","n","g">>
s_cross_language == <<"c","r","o","s","s","-","l","a","n","g","u","a","g","e">>
s_language_switching ==
    <<"l","a","n","g","u","a","g","e","-","s","w","i","t","c","h","i","n","g">>

\* the mapping of before_all and after_scenario
language_code_mapping ==
    << <<s_english, s_en>>, <<s_vietnamese, s_vi>>, <<s_en, s_en>>, <<s_vi, s_vi>> >>

\* before_all: language_code_mapping.get(language.lower(), 'en')
language_code(language) == DictGet(language_code_mapping, Lower(language), s_en)

\* an after_scenario that hands the configured language itself to the resolver
default_code_Raw(default_language_) == default_language_

\* after_scenario: language_code_mapping.get(default_language.lower(), 'en')
default_code(default_language_) ==
    DictGet(language_code_mapping, Lower(default_language_), s_en)

\* the tracking file: absent, holding "True", or left empty by a write that
\* failed after the file was opened
FlagStates == {"absent", "True", "empty"}

WriteOutcomes == {"written", "open fails", "write fails"}

\* set_language_features_used, whose exceptions are swallowed
set_language_features_used(flag, outcome) ==
    CASE outcome = "written"     -> "True"
      [] outcome = "open fails"  -> flag
      [] outcome = "write fails" -> "empty"

\* an after_all that takes language features as used in every run
check_language_features_used_Always(flag) == TRUE

check_language_features_used(flag) == flag = "True"

\* cleanup_language_features_tracking, whose exceptions are swallowed
cleanup_language_features_tracking(flag, removed) ==
    IF removed THEN "absent" ELSE flag

IsLanguageTag(tag) == StartsWith(tag, s_language_dot)

IsLanguageRelated(tag) ==
    IsLanguageTag(tag) \/ tag \in {s_multilang, s_cross_language, s_language_switching}

\* the loop of after_all over validation_result.items()
has_missing_translations(validation_result) ==
    \E i \in DOMAIN validation_result :
        \E j \in DOMAIN validation_result[i][2] :
            validation_result[i][2][j][2] # <<>>

\* the userdata language of a run: left out ('english'), codes and names in
\* several spellings, an alias the mapping lacks, an unknown word
RunLanguages ==
    { s_english, s_vi, <<"V","i","e","t","n","a","m","e","s","e">>,
      <<"V","N">>, <<" ","v","i"," ">>, <<"b","o","g","u","s">> }

t_smoke == <<"s","m","o","k","e">>
t_language_vi == s_language_dot \o s_vi
t_language_bogus == s_language_dot \o <<"b","o","g","u","s">>
t_language_language_VN == s_language_dot \o s_language_dot \o <<"V","N">>

\* the tags of a scenario
TagLists ==
    { <<>>,
      <<t_smoke>>,
      <<s_multilang>>,
      <<t_smoke, s_cross_language>>,
      <<t_language_vi>>,
      <<t_smoke, t_language_bogus, t_language_vi>>,
      <<t_language_language_VN, s_language_switching>> }

\* the languages steps switch to
StepLanguages == {s_en, s_vietnamese, <<"V","N">>}

\* a complete pair of modules (nothing to translate) and a pair with a gap
RunSources == [english : {SampleEnglish, ImportError}, vietnamese : {SampleVietnamese}]

\* the scenarios of a run
MaxScenarios == 2

\* before_all, for every configured language, with the tracking file as an
\* earlier run left it
InitRun ==
    \E language \in RunLanguages, flag \in FlagStates :
        /\ InitWith(RunSources, {language_code(language)})
        /\ run = [phase |-> "between", hook |-> "before_all",
                  language |-> language, scenarios |-> 0, tags |-> <<>>,
                  scenarios_with_language_tags |-> {}, flag |-> flag,
                  stale |-> (flag = "True"), failed |-> FALSE,
                  used |-> FALSE, report |-> "none"]

BeforeScenario(tags, outcome1, outcome2) ==
    LET language_related_tags == SelectSeq(tags, IsLanguageRelated)
        language_tags         == SelectSeq(tags, IsLanguageTag)
        flag1 == IF language_related_tags # <<>>
                 THEN set_language_features_used(run.flag, outcome1)
                 ELSE run.flag
        flag2 == IF language_tags # <<>>
                 THEN set_language_features_used(flag1, outcome2)
                 ELSE flag1
        scenario_language == Remove(language_tags[1], s_language_dot)
    IN  /\ run.phase = "between"
        /\ run.scenarios < MaxScenarios
        /\ language_related_tags = <<>> => outcome1 = "written"
        /\ language_tags = <<>> => outcome2 = "written"
        /\ run' = [run EXCEPT
                     !.phase = "scenario", !.hook = "before_scenario",
                     !.scenarios = @ + 1, !.tags = tags,
                     !.scenarios_with_language_tags =
                         @ \cup Range(language_related_tags),
                     !.flag = flag2,
                     !.failed = @ \/ (language_related_tags # <<>> /\ flag2 # "True")]
        /\ IF language_tags # <<>>
           THEN /\ language_data' =
                      set_language(language_data, scenario_language, sources)[1]
                /\ current_language' =
                      set_language(language_data, scenario_language, sources)[2]
                /\ call' = Called("set_language", <<scenario_language>>)
                /\ result' = None
           ELSE UNCHANGED <<language_data, current_language, call, result>>
        /\ exited' = <<>>
        /\ UNCHANGED <<default_language, sources, hash_order, scopes, entered>>

\* a step of the scenario that switches the language
Step(language) ==
    /\ run.phase = "scenario"
    /\ run' = [run EXCEPT !.hook = "step"]
    /\ language_data' = set_language(language_data, language, sources)[1]
    /\ current_language' = set_language(language_data, language, sources)[2]
    /\ call' = Called("set_language", <<language>>)
    /\ result' = None
    /\ exited' = <<>>
    /\ UNCHANGED <<default_language, sources, hash_order, scopes, entered>>

AfterScenario ==
    LET code == default_code(run.language)
    IN  /\ run.phase = "scenario"
        /\ run' = [run EXCEPT !.phase = "between", !.hook = "after_scenario"]
        /\ language_data' = set_language(language_data, code, sources)[1]
        /\ current_language' = set_language(language_data, code, sources)[2]
        /\ call' = Called("set_language", <<code>>)
        /\ result' = None
        /\ exited' = <<>>
        /\ UNCHANGED <<default_language, sources, hash_order, scopes, entered>>

AfterAll(removed) ==
    LET language_features_used == check_language_features_used(run.flag)
        validation_result ==
            validate_language_completeness(language_data, hash_order, s_en)
    IN  /\ run.phase = "between"
        /\ run' = [run EXCEPT
                     !.phase = "done", !.hook = "after_all",
                     !.used = language_features_used,
                     !.report = IF ~language_features_used THEN "unused"
                                ELSE IF has_missing_translations(validation_result)
                                THEN "missing" ELSE "complete",
                     !.flag = cleanup_language_features_tracking(@, removed)]
        /\ IF language_features_used
           THEN /\ call' = Called("validate_language_completeness", <<s_en>>)
                /\ result' = validation_result
           ELSE /\ call' = Called("get_supported_languages", <<>>)
                /\ result' = get_supported_languages(hash_order)
        /\ exited' = <<>>
        /\ UNCHANGED <<current_language, default_language, language_data,
                       sources, hash_order, scopes, entered>>

NextRun ==
    \/ \E tags \in TagLists, outcome1, outcome2 \in WriteOutcomes :
          BeforeScenario(tags, outcome1, outcome2)
    \/ \E language \in StepLanguages : Step(language)
    \/ AfterScenario
    \/ \E removed \in BOOLEAN : AfterAll(removed)

SpecRun == InitRun /\ [][NextRun]_vars

-----------------------------------------------------------------------------
(* Properties of the language state                                        *)

CanonicalCodes == {s_en, s_vi}

\* the aliases the resolver recognizes, by language
AliasesOf(code) ==
    IF code = s_en THEN {s_en, s_english} ELSE {s_vi, s_vietnamese, s_vn}

UpperChar(c) ==
    IF \E i \in DOMAIN LowerLetters : LowerLetters[i] = c
    THEN UpperLetters[CHOOSE i \in DOMAIN LowerLetters : LowerLetters[i] = c]
    ELSE c

\* x is alias in some letter case, with whitespace around it
IsSpellingOf(x, alias) ==
    \E i \in 0..Len(x) :
        /\ i + Len(alias) <= Len(x)
        /\ \A n \in 1..i : x[n] \in Whitespace
        /\ \A n \in 1..Len(alias) : x[i + n] \in {alias[n], UpperChar(alias[n])}
        /\ \A n \in (i + Len(alias) + 1)..Len(x) : x[n] \in Whitespace

Recognized(x, code) == \E alias \in AliasesOf(code) : IsSpellingOf(x, alias)

\* normalized is what the claims say x normalizes to
NormalizedAsClaimed(x, normalized) ==
    /\ \A code \in CanonicalCodes : Recognized(x, code) => normalized = code
    /\ (\A code \in CanonicalCodes : ~Recognized(x, code)) => normalized = s_en

\* C1: when a switch_language_temporarily block is left, by completion or by
\* a failure raised inside it, current_language is again what it was right
\* before the scope was entered, whatever was switched inside the block.
C1_ScopeRestoresLanguage ==
    call.op = "scope_exit" => current_language = exited[1]

\* a block that failed after the language had changed inside it
C1_Witness ==
    /\ call.op = "scope_exit"
    /\ call.args[1] = "raise"
    /\ exited[2] # exited[1]
    /\ current_language = exited[1]

\* C2: current_language is always one of the canonical codes "en" and "vi",
\* whatever raw aliases, unknown strings or empty input callers pass.
C2_CurrentLanguageCanonical == current_language \in CanonicalCodes

\* a switch made with an argument that is not itself a canonical code
C2_Witness ==
    /\ call.op \in {"set_language", "scope_enter"}
    /\ call.args[1] \notin CanonicalCodes
    /\ current_language = s_vi

\* C3: every spelling of an alias (any letter case, whitespace around it)
\* normalizes to the canonical code of its language, which the canonical code
\* itself normalizes to, and every other input, the empty one and None
\* included, normalizes to "en"; seen in what __init__ stores and in the
\* code export_language_data returns.
C3_NormalizeTotal ==
    /\ \A code \in CanonicalCodes : _normalize_language_code(code) = code
    /\ call.op = "__init__" =>
          NormalizedAsClaimed(call.args[1], current_language)
    /\ (call.op = "export_language_data" /\ call.args[1] \notin {None, <<>>}) =>
          NormalizedAsClaimed(call.args[1], result.language)

\* an alias in capitals with whitespace around it, exported as "vi"
C3_Witness ==
    /\ call.op = "export_language_data"
    /\ call.args[1] = <<"\n","V","i","e","t","n","a","m","e","s","e"," "," ">>
    /\ result.language = s_vi

\* C4: set_language returns normally and leaves current_language at the
\* canonical code of a recognized argument and at "en" for an unrecognized
\* one, whatever the language was before and whatever the default language
\* is; get_current_language returns current_language.
C4_SetLanguageNeverFails ==
    /\ call.op = "set_language" =>
          /\ result = None
          /\ NormalizedAsClaimed(call.args[1], current_language)
    /\ call.op = "get_current_language" => result = current_language

\* set_language("bogus") on a resolver whose default language is "vi"
C4_Witness ==
    /\ call.op = "set_language"
    /\ call.args[1] = <<"b","o","g","u","s">>
    /\ default_language = s_vi
    /\ current_language = s_en

-----------------------------------------------------------------------------
(* Properties of the lookups                                               *)

\* the catalog, read item by item; category names compare ignoring case
SameCategory(a, b) == Lower(a) = Lower(b)

TextIs(lang, category, key, text) ==
    \E i \in DOMAIN language_data :
        /\ language_data[i][1] = lang
        /\ \E j \in DOMAIN language_data[i][2] :
              /\ SameCategory(language_data[i][2][j][1], category)
              /\ \E k \in DOMAIN language_data[i][2][j][2] :
                    language_data[i][2][j][2][k] = <<key, text>>

HasKey(lang, category, key) ==
    \E i \in DOMAIN language_data :
        /\ language_data[i][1] = lang
        /\ \E j \in DOMAIN language_data[i][2] :
              /\ SameCategory(language_data[i][2][j][1], category)
              /\ \E k \in DOMAIN language_data[i][2][j][2] :
                    language_data[i][2][j][2][k][1] = key

Placeholder(key) ==
    <<"[","M","i","s","s","i","n","g",":"," ">> \o key \o <<"]">>

OtherCodes == CanonicalCodes \ {current_language}

\* C5: get_text_by_category with fallback disabled, on a key the current
\* language lacks in that category, returns exactly "[Missing: <key>]", also
\* when another language has the key, and changes nothing of the resolver.
C5_PlaceholderReturned ==
    (/\ call.op = "get_text_by_category"
     /\ call.args[3] = FALSE
     /\ ~HasKey(current_language, call.args[1], call.args[2]))
    => result = Placeholder(call.args[2])

C5_NoFallbackGivesPlaceholder ==
    /\ []C5_PlaceholderReturned
    /\ [][call'.op = "get_text_by_category" =>
             UNCHANGED <<current_language, default_language, language_data,
                         sources, hash_order, scopes>>]_vars

\* fallback disabled, the key only in the other language
C5_Witness ==
    /\ call.op = "get_text_by_category"
    /\ call.args[3] = FALSE
    /\ ~HasKey(current_language, call.args[1], call.args[2])
    /\ \E o \in OtherCodes : HasKey(o, call.args[1], call.args[2])
    /\ result = Placeholder(call.args[2])

\* C6: get_text_by_category with fallback enabled, on a key the current
\* language lacks in that category, returns the text of another supported
\* language that has it, not the placeholder; it returns the placeholder only
\* when no supported language has the key in that category.
C6_FallbackGivesOtherLanguage ==
    (/\ call.op = "get_text_by_category"
     /\ call.args[3] = TRUE
     /\ ~HasKey(current_language, call.args[1], call.args[2]))
    => /\ \A o \in OtherCodes :
             HasKey(o, call.args[1], call.args[2]) =>
                /\ TextIs(o, call.args[1], call.args[2], result)
                /\ result # Placeholder(call.args[2])
       /\ result = Placeholder(call.args[2]) =>
             \A l \in CanonicalCodes : ~HasKey(l, call.args[1], call.args[2])

\* fallback enabled, the key only in the other language, whose text comes back
C6_Witness ==
    /\ call.op = "get_text_by_category"
    /\ call.args[3] = TRUE
    /\ ~HasKey(current_language, call.args[1], call.args[2])
    /\ \E o \in OtherCodes : TextIs(o, call.args[1], call.args[2], result)

\* the category an operation looks into, and its key
CategoryAsked ==
    CASE call.op = "get_text_by_category"   -> call.args[1]
      [] call.op = "get_message"            -> s_messages
      [] call.op = "get_button_text"        -> s_button_texts
      [] call.op = "get_label_text"         -> s_labels
      [] call.op = "get_validation_message" -> s_validation_messages

KeyAsked == IF call.op = "get_text_by_category" THEN call.args[2] ELSE call.args[1]

LookupOps ==
    {"get_text_by_category", "get_message", "get_button_text", "get_label_text",
     "get_validation_message"}

\* C7: whenever the current language has the key in the category,
\* get_text_by_category and the four fixed-category accessors return the
\* current language's text, for both values of the fallback flag.
C7_PresentGivesCurrentText ==
    (call.op \in LookupOps /\ HasKey(current_language, CategoryAsked, KeyAsked))
    => TextIs(current_language, CategoryAsked, KeyAsked, result)

\* an accessor, fallback enabled, the other language holding another text
C7_Witness ==
    /\ call.op = "get_validation_message"
    /\ call.args[2] = TRUE
    /\ TextIs(current_language, s_validation_messages, call.args[1], result)
    /\ \E o \in OtherCodes :
          /\ HasKey(o, s_validation_messages, call.args[1])
          /\ ~TextIs(o, s_validation_messages, call.args[1], result)

\* C8: a lookup returns the same text, and its fallback visits the same
\* languages in the same order, in whatever order the set of supported codes
\* is enumerated.
C8_FallbackDeterministic ==
    call.op = "get_text_by_category" =>
        \A order \in SetOrders(SupportedSet) :
            /\ OtherLanguages(order, current_language)
                  = OtherLanguages(hash_order, current_language)
            /\ get_text_by_category(language_data, current_language, order,
                                    call.args[1], call.args[2], call.args[3])
                  = result

\* a fallback that found the key, the current language enumerated first
C8_Witness ==
    /\ call.op = "get_text_by_category"
    /\ call.args[3] = TRUE
    /\ hash_order[1] = current_language
    /\ ~HasKey(current_language, call.args[1], call.args[2])
    /\ \E o \in OtherCodes : TextIs(o, call.args[1], call.args[2], result)

-----------------------------------------------------------------------------
(* Properties of the completeness validation                               *)

\* the canonical code of the reference argument of the last call
ReferenceCode ==
    CHOOSE code \in CanonicalCodes : NormalizedAsClaimed(call.args[1], code)

EntryOf(lang) == DictGet(language_data, lang, <<>>)

CategoriesOf(lang) == Range(DictKeys(EntryOf(lang)))

KeysOf(lang, category) == Range(DictKeys(DictGet(EntryOf(lang), category, <<>>)))

\* the keys language lang lacks in a category of the reference ref
Gap(ref, lang, category) == KeysOf(ref, category) \ KeysOf(lang, category)

PositionIn(keys, key) == CHOOSE i \in DOMAIN keys : keys[i] = key

\* list holds exactly the keys of gap, once each, in the order of keys
IsOrderedGap(list, gap, keys) ==
    /\ Range(list) = gap
    /\ Len(list) = Cardinality(gap)
    /\ \A a, b \in DOMAIN list :
          a < b => PositionIn(keys, list[a]) < PositionIn(keys, list[b])

Reported(lang) == DictGet(result, lang, <<>>)

ReportsGaps(ref) ==
    /\ \A i \in DOMAIN result : result[i][1] \in CanonicalCodes \ {ref}
    /\ \A lang \in CanonicalCodes \ {ref} :
          /\ \A category \in CategoriesOf(ref) :
                IF Gap(ref, lang, category) = {}
                THEN ~DictHas(Reported(lang), category)
                ELSE /\ DictHas(Reported(lang), category)
                     /\ IsOrderedGap(DictGet(Reported(lang), category, <<>>),
                                     Gap(ref, lang, category),
                                     DictKeys(DictGet(EntryOf(ref), category, <<>>)))
          /\ Range(DictKeys(Reported(lang))) \subseteq CategoriesOf(ref)
    /\ (/\ ref = s_en
        /\ s_messages \in CategoriesOf(s_en)
        /\ \A category \in CategoriesOf(s_en) :
              Gap(s_en, s_vi, category) =
                 IF category = s_messages THEN {s_welcome} ELSE {})
       => result = << <<s_vi, << <<s_messages, <<s_welcome>> >> >> >> >>

\* C9: validate_language_completeness reports, for each supported language
\* other than the normalized reference and each category of the reference,
\* exactly the reference keys the language lacks in that category, in the
\* reference's key order; a category without such keys is not reported, and
\* the reference is no entry of the result. With "vi" lacking only "welcome"
\* of "messages" the result is {"vi": {"messages": ["welcome"]}}.
C9_ValidationReportsGaps ==
    call.op = "validate_language_completeness" => ReportsGaps(ReferenceCode)

\* the example of the claim: "vi" has "save" and lacks "welcome" in "messages"
C9_Witness ==
    /\ call.op = "validate_language_completeness"
    /\ call.args[1] = s_en
    /\ s_save \in KeysOf(s_vi, s_messages)
    /\ result = << <<s_vi, << <<s_messages, <<s_welcome>> >> >> >> >>

\* every other supported language has every key of every category of ref
Complete(ref) ==
    \A lang \in CanonicalCodes \ {ref} :
        \A category \in CategoriesOf(ref) : Gap(ref, lang, category) = {}

EmptyEntries(ref) ==
    /\ Len(result) = Cardinality(CanonicalCodes \ {ref})
    /\ \A lang \in CanonicalCodes \ {ref} :
          DictHas(result, lang) /\ DictGet(result, lang, None) = <<>>

\* C10 as stated: on a complete catalog the validation returns the empty
\* mapping, the languages without gaps being left out of it.
C10_CompleteGivesEmptyMapping ==
    (call.op = "validate_language_completeness" /\ Complete(ReferenceCode))
    => result = <<>>

\* C10, amended: on a complete catalog the validation returns a mapping that
\* has an entry for every supported language other than the reference, each
\* mapped to the empty mapping; only categories without gaps are left out.
C10_CompleteGivesEmptyEntries ==
    call.op = "validate_language_completeness" =>
        LET ref == ReferenceCode IN Complete(ref) => EmptyEntries(ref)

\* a complete catalog that has keys, validated against "en"
C10_Witness ==
    /\ call.op = "validate_language_completeness"
    /\ call.args[1] = s_en
    /\ Complete(s_en)
    /\ KeysOf(s_en, s_messages) = {s_welcome}
    /\ KeysOf(s_vi, s_messages) = {s_welcome}
    /\ result = << <<s_vi, <<>> >> >>

-----------------------------------------------------------------------------
(* Properties of the resolver's state across operations                    *)

\* C11: validate_language_completeness changes neither the catalog nor
\* current_language nor default_language, in whatever state it is called and
\* whatever reference it is given.
C11_ValidationIsPure ==
    [][call'.op = "validate_language_completeness" =>
          UNCHANGED <<language_data, current_language, default_language>>]_vars

\* an unrecognized reference, which normalizes to "en", on a resolver in "vi"
C11_Witness ==
    /\ call.op = "validate_language_completeness"
    /\ call.args[1] = <<"b","o","g","u","s">>
    /\ current_language = s_vi
    /\ DictHas(result, s_vi)

\* C15: default_language is the normalized constructor argument and no
\* operation changes it.
C15_DefaultLanguageFixed ==
    /\ [](call.op = "__init__" =>
             NormalizedAsClaimed(call.args[1], default_language))
    /\ [][default_language' = default_language]_vars

\* a failed scope left in a language other than the default one
C15_Witness ==
    /\ call.op = "scope_exit"
    /\ call.args[1] = "raise"
    /\ default_language = s_vi
    /\ current_language = s_en

\* C18: after construction the catalog has an entry for every supported
\* language, the current one included, and no operation loads or overwrites
\* an entry.
C18_EagerlyLoaded ==
    /\ [](/\ \A code \in CanonicalCodes : DictHas(language_data, code)
          /\ DictHas(language_data, current_language))
    /\ [][language_data' = language_data]_vars

\* a switch to the language the resolver was not constructed with
C18_Witness ==
    /\ call.op = "set_language"
    /\ current_language # default_language
    /\ DictHas(language_data, current_language)

-----------------------------------------------------------------------------
(* Load failures                                                            *)

DefaultCategories == {s_messages, s_button_texts, s_labels, s_validation_messages}

\* the data source bound to a language code
SourceOf(code) == sources[IF code = s_vi THEN "vietnamese" ELSE "english"]

\* the entry of a language is the default categories, each without keys
IsDefaultEntry(code) ==
    /\ DictHas(language_data, code)
    /\ Len(EntryOf(code)) = Cardinality(DefaultCategories)
    /\ CategoriesOf(code) = DefaultCategories
    /\ \A category \in DefaultCategories : KeysOf(code, category) = {}

\* C14: whenever the data source of a language is missing or malformed, the
\* entry stored for that language is exactly the four default categories,
\* each mapped to an empty key set.
C14_FailedLoadGivesDefaultCategories ==
    \A code \in CanonicalCodes :
        SourceOf(code).kind # "module" => IsDefaultEntry(code)

-----------------------------------------------------------------------------
(* Batches                                                                  *)

\* the text a lookup with fallback owes for key in category
TextOwed(category, key, text) ==
    IF HasKey(current_language, category, key)
    THEN TextIs(current_language, category, key, text)
    ELSE IF \E lang \in OtherCodes : HasKey(lang, category, key)
    THEN \E lang \in OtherCodes : TextIs(lang, category, key, text)
    ELSE text = Placeholder(key)

\* C12: bulk_get_texts returns a mapping whose keys are exactly the given
\* keys, each once, and whose value for a key is the text
\* get_text_by_category gives for it: the current language's text, else
\* another language's, else "[Missing: <key>]"; a miss on one key removes
\* no other entry.
C12_BulkResolvesEveryKey ==
    call.op = "bulk_get_texts" =>
        LET keys     == call.args[1]
            category == call.args[2]
        IN  /\ Range(DictKeys(result)) = Range(keys)
            /\ Len(result) = Cardinality(Range(keys))
            /\ \A i \in DOMAIN result :
                  /\ TextOwed(category, result[i][1], result[i][2])
                  /\ result[i][2] =
                        get_text_by_category(language_data, current_language,
                                             hash_order, category,
                                             result[i][1], TRUE)

\* a batch whose first key is nowhere and whose second key has its text
C12_Witness ==
    /\ call.op = "bulk_get_texts"
    /\ Len(call.args[1]) = 2
    /\ Len(result) = 2
    /\ result[1][2] = Placeholder(result[1][1])
    /\ HasKey(current_language, call.args[2], result[2][1])
    /\ TextIs(current_language, call.args[2], result[2][1], result[2][2])

-----------------------------------------------------------------------------
(* Reverse lookup                                                           *)

RECURSIVE Upper(_)
Upper(x) == IF x = <<>> THEN <<>> ELSE <<UpperChar(Head(x))>> \o Upper(Tail(x))

EqualIgnoringCase(a, b) == Upper(a) = Upper(b)

\* the category argument is left out
Omitted(category) == category \in {None, <<>>}

\* C13, as claimed: for every entry of the catalog, in whatever language,
\* find_key_by_text given the text get_text_by_category resolves for the
\* entry's key, with the entry's category or none, returns that key.
C13_RoundTripAlways ==
    call.op = "find_key_by_text" =>
        \A lang \in CanonicalCodes :
            \A category \in CategoriesOf(lang) :
                \A key \in KeysOf(lang, category) :
                    (/\ get_text_by_category(language_data, current_language,
                                             hash_order, category, key, TRUE)
                           = call.args[1]
                     /\ (Omitted(call.args[2]) \/ SameCategory(call.args[2], category)))
                    => result = key

\* the items find_key_by_text walks: <<j, k>> is item k of category j of the
\* current language, within the category asked for if one is
Searched(category) ==
    LET entry == EntryOf(current_language)
    IN  {p \in UNION {{<<j, k>> : k \in DOMAIN entry[j][2]} : j \in DOMAIN entry} :
            Omitted(category) \/ entry[p[1]][1] = category}

Matching(text, category) ==
    LET entry == EntryOf(current_language)
    IN  {p \in Searched(category) :
            EqualIgnoringCase(entry[p[1]][2][p[2]][2], text)}

Earlier(p, q) == p[1] < q[1] \/ (p[1] = q[1] /\ p[2] < q[2])

\* C13, amended: find_key_by_text returns the key of the first item, in
\* iteration order of the current language's categories (of the one category
\* named exactly, if one is given), whose text equals the argument ignoring
\* case, and None if there is none.  So the round trip returns the key
\* exactly for an entry of the current language that no earlier item equals
\* ignoring case.
C13_RoundTripFirstMatch ==
    call.op = "find_key_by_text" =>
        LET text     == call.args[1]
            category == call.args[2]
            entry    == EntryOf(current_language)
            matching == Matching(text, category)
        IN  /\ matching = {} => result = None
            /\ \A p \in matching :
                  (\A q \in matching : q = p \/ Earlier(p, q))
                  => result = entry[p[1]][2][p[2]][1]
            /\ \A p \in Searched(category) :
                  (/\ get_text_by_category(language_data, current_language,
                                           hash_order, entry[p[1]][1],
                                           entry[p[1]][2][p[2]][1], TRUE) = text
                   /\ \A q \in matching : q = p \/ Earlier(p, q))
                  => result = entry[p[1]][2][p[2]][1]

\* two keys of one category whose texts differ in case only: the text of the
\* second one finds the first
C13_Witness ==
    /\ call.op = "find_key_by_text"
    /\ call.args = <<t_SAVE, s_messages>>
    /\ TextIs(current_language, s_messages, s_welcome, t_Save)
    /\ TextIs(current_language, s_messages, s_save, t_SAVE)
    /\ result = s_welcome

-----------------------------------------------------------------------------
(* The run                                                                  *)

\* the scenario at hand carries a language.* tag
Tagged == \E i \in DOMAIN run.tags : StartsWith(run.tags[i], s_language_dot)

\* C16: after each after_scenario hook the resolver's current language is
\* its default language, whatever the configured run language, the tags of
\* the scenario and the switches of its steps; so a scenario without a
\* language.* tag starts in the run default language.
C16_ScenarioEndsInDefault ==
    /\ run.hook = "after_scenario" => current_language = default_language
    /\ (run.hook = "before_scenario" /\ ~Tagged) => current_language = default_language
    /\ run.hook = "before_all" => current_language = default_language

\* a run configured with an alias the hooks' mapping lacks, after a scenario
\* tagged language.vi whose last step switched language
C16_Witness ==
    /\ run.hook = "after_scenario"
    /\ run.language = <<"V","N">>
    /\ run.scenarios = 2
    /\ Tagged
    /\ current_language = s_en

GapsAgainstEnglish ==
    \E lang \in CanonicalCodes \ {s_en} :
        \E category \in CategoriesOf(s_en) : Gap(s_en, lang, category) # {}

====
